---- MODULE Spec2Model ----
(***************************************************************************)
(* Model of datastore/bolt_shard.go: the BoltShard handle cache, its lock, *)
(* the closed flag, the transactional Write, DropDatabase, close and the   *)
(* unlocked Query path, over a file system of per-database bolt stores.    *)
(***************************************************************************)
EXTENDS Integers, Sequences, FiniteSets, TLC

\* ------------------------------------------------------------------ bounds
\* Number of *bolt.DB handles that can be live (open or still referenced).
MaxHandles == 2

\* Goroutines calling into the shard.
Procs == {"p1", "p2"}

\* Database names (file names under baseDir).
Databases == {"a", "b"}

\* ------------------------------------------------------------ byte strings
\* A Go string / []byte is a sequence of bytes 0..255.
SName == <<115>>
TName == <<116>>
EmptyName == << >>
FName == <<102>>
GName == <<103>>

\* Width of the fixed-width integers binary.Write emits for a uint64.
KeyIntBytes == 8

RECURSIVE LittleEndian(_, _)
\* binary.Write with the least significant byte first.
LittleEndian(x, n) ==
  IF n = 0 THEN << >> ELSE <<x % 256>> \o LittleEndian(x \div 256, n - 1)

RECURSIVE BigEndian(_, _)
\* binary.Write(buf, binary.BigEndian, x) for a non-negative x, n bytes wide.
BigEndian(x, n) ==
  IF n = 0 THEN << >> ELSE Append(BigEndian(x \div 256, n - 1), x % 256)

\* itou(int64) uint64, as the 8 big-endian bytes of its result: the offset
\* conversion that keeps numeric order (sign bit flipped), for |i| < 2^31.
itou(i) ==
  IF i >= 0
    THEN <<128, 0, 0, 0>> \o BigEndian(i, 4)
    ELSE LET low == BigEndian(i + 2147483647 + 1, 4)
         IN <<127, 255, 255, 255, low[1] + 128, low[2], low[3], low[4]>>

\* --------------------------------------------------------- protocol values
\* A *protocol.FieldValue: a nil pointer, an explicit null, or an int64.
NilValue == [nil |-> TRUE, isNull |-> FALSE, v |-> 0]
NullValue == [nil |-> FALSE, isNull |-> TRUE, v |-> 0]
IntValue(n) == [nil |-> FALSE, isNull |-> FALSE, v |-> n]

\* FieldValue.GetIsNull(): false on a nil receiver.
GetIsNull(val) == ~val.nil /\ val.isNull

\* proto.Buffer.Marshal fails on a nil message (ErrNil).
MarshalFails(val) == val.nil

\* The marshalled bytes of an int64 FieldValue (tag, varint payload < 128).
Marshal(val) == <<40, val.v>>

Point(ts, sn, vals) == [timestamp |-> ts, sequenceNumber |-> sn, values |-> vals]
Serie(nm, flds, pts) == [name |-> nm, fields |-> flds, points |-> pts]

\* ------------------------------------------------------------ bolt buckets
Nil == << >>
EmptyBucket == << >>
EmptyStore == << >>

\* Bucket.Put: overwrite or add one key.
Put(b, k, v) == [x \in DOMAIN b \cup {k} |-> IF x = k THEN v ELSE b[x]]

\* tx.CreateBucketIfNotExists(name)
CreateBucketIfNotExists(tx, name) ==
  IF name \in DOMAIN tx THEN tx
  ELSE [n \in DOMAIN tx \cup {name} |-> IF n = name THEN EmptyBucket ELSE tx[n]]

\* BucketPut appending the value to the one already stored under the key.
BucketPutAppend(tx, name, k, v) ==
  [tx EXCEPT ![name] = Put(@, k, IF k \in DOMAIN @ THEN @[k] \o v ELSE v)]

BucketPut(tx, name, k, v) == [tx EXCEPT ![name] = Put(@, k, v)]

\* The content of a bucket of a store, empty when the bucket does not exist.
Bucket(store, name) == IF name \in DOMAIN store THEN store[name] ELSE EmptyBucket

\* ------------------------------------------------------------ key encoding
\* key prefix: <series name>\x00<timestamp><sequence number>
KeyPrefix(seriesName, point) ==
  seriesName \o <<0>> \o itou(point.timestamp)
             \o BigEndian(point.sequenceNumber, KeyIntBytes)

\* fields bucket key: seriesName + "\x00" + field
FieldBucketKey(seriesName, field) == seriesName \o <<0>> \o field

\* data bucket key: append(keyBuffer.Bytes(), []byte(field)...)
DataBucketKey(prefix, field) == prefix \o field

\* ------------------------------------------------- the write transaction
NoErr == "nil"
ErrBucket == "bucket error"
ErrMarshal == "marshal error"

\* State of the running transaction function: the transaction's view of the
\* store, the number of CreateBucketIfNotExists calls made, the error, and
\* the data keys whose value is a slice of the current valueBuffer (none
\* right after valueBuffer := proto.NewBuffer(nil)).
TxState(st, n, err) == [st |-> st, n |-> n, err |-> err, held |-> {}]

\* Writing the bytes new at the start of the array a slice old points into.
Overwrite(old, new) ==
  [i \in 1..Len(old) |-> IF i <= Len(new) THEN new[i] ELSE old[i]]

\* valueBuffer.Reset() and Marshal: Bucket.Put keeps the value slice it is
\* given until the commit, Reset keeps the array, and the encodings are of
\* one length, so the bytes marshalled replace those of every value put from
\* this buffer before.
MarshalInPlace(tx, held, new) ==
  [tx EXCEPT !["data"] =
     [k \in DOMAIN @ |-> IF k \in held THEN Overwrite(@[k], new) ELSE @[k]]]

RECURSIVE WriteFieldsNoSkip(_, _, _, _, _)
\* WriteFields without the GetIsNull test: a null value is marshalled and put
\* like any other.
WriteFieldsNoSkip(r, serie, point, i, failAt) ==
  IF r.err # NoErr \/ i > Len(serie.fields) THEN r
  ELSE LET val == point.values[i]
           field == serie.fields[i]
       IN IF MarshalFails(val) THEN TxState(r.st, r.n, ErrMarshal)
          ELSE IF r.n + 1 = failAt THEN TxState(r.st, r.n + 1, ErrBucket)
          ELSE LET tx1 == CreateBucketIfNotExists(r.st, "fields")
                   tx2 == BucketPut(tx1, "fields",
                                    FieldBucketKey(serie.name, field), Nil)
                   key == DataBucketKey(KeyPrefix(serie.name, point), field)
                   tx3 == BucketPut(MarshalInPlace(tx2, r.held, Marshal(val)),
                                    "data", key, Marshal(val))
               IN WriteFieldsNoSkip([TxState(tx3, r.n + 1, NoErr)
                                       EXCEPT !.held = r.held \cup {key}],
                                    serie, point, i + 1, failAt)

RECURSIVE WriteFields(_, _, _, _, _)
\* The loop over serie.Fields for one point; failAt is the number of the
\* CreateBucketIfNotExists call that fails (0: none fails).
WriteFields(r, serie, point, i, failAt) ==
  IF r.err # NoErr \/ i > Len(serie.fields) THEN r
  ELSE LET val == point.values[i]
           field == serie.fields[i]
       IN IF GetIsNull(val) THEN WriteFields(r, serie, point, i + 1, failAt)
          ELSE IF MarshalFails(val) THEN TxState(r.st, r.n, ErrMarshal)
          ELSE IF r.n + 1 = failAt THEN TxState(r.st, r.n + 1, ErrBucket)
          ELSE LET tx1 == CreateBucketIfNotExists(r.st, "fields")
                   tx2 == BucketPut(tx1, "fields",
                                    FieldBucketKey(serie.name, field), Nil)
                   key == DataBucketKey(KeyPrefix(serie.name, point), field)
                   tx3 == BucketPut(MarshalInPlace(tx2, r.held, Marshal(val)),
                                    "data", key, Marshal(val))
               IN WriteFields([TxState(tx3, r.n + 1, NoErr)
                                 EXCEPT !.held = r.held \cup {key}],
                              serie, point, i + 1, failAt)

RECURSIVE WritePoints(_, _, _, _)
\* The loop over serie.GetPoints().
WritePoints(r, serie, j, failAt) ==
  IF r.err # NoErr \/ j > Len(serie.points) THEN r
  ELSE WritePoints(WriteFields(r, serie, serie.points[j], 1, failAt),
                   serie, j + 1, failAt)

\* WriteSerie without the test for an empty series name.
WriteSerieNoSkip(r, serie, failAt) ==
  IF r.n + 1 = failAt THEN TxState(r.st, r.n + 1, ErrBucket)
  ELSE LET tx1 == BucketPut(CreateBucketIfNotExists(r.st, "series"),
                            "series", serie.name, Nil)
       IN IF r.n + 2 = failAt THEN TxState(tx1, r.n + 2, ErrBucket)
          ELSE WritePoints(TxState(CreateBucketIfNotExists(tx1, "data"), r.n + 2, NoErr),
                           serie, 1, failAt)

\* WriteSerie with the put into the series bucket left out.
WriteSerieNoSeriesPut(r, serie, failAt) ==
  IF serie.name = EmptyName THEN r
  ELSE IF r.n + 1 = failAt THEN TxState(r.st, r.n + 1, ErrBucket)
  ELSE LET tx1 == CreateBucketIfNotExists(r.st, "series")
       IN IF r.n + 2 = failAt THEN TxState(tx1, r.n + 2, ErrBucket)
          ELSE WritePoints(TxState(CreateBucketIfNotExists(tx1, "data"), r.n + 2, NoErr),
                           serie, 1, failAt)

\* The body of the loop over the batch for one serie.
WriteSerie(r, serie, failAt) ==
  IF serie.name = EmptyName THEN r
  ELSE IF r.n + 1 = failAt THEN TxState(r.st, r.n + 1, ErrBucket)
  ELSE LET tx1 == BucketPut(CreateBucketIfNotExists(r.st, "series"),
                            "series", serie.name, Nil)
       IN IF r.n + 2 = failAt THEN TxState(tx1, r.n + 2, ErrBucket)
          ELSE WritePoints(TxState(CreateBucketIfNotExists(tx1, "data"), r.n + 2, NoErr),
                           serie, 1, failAt)

RECURSIVE TxBody(_, _, _, _)
\* The function passed to db.Update: the loop over the batch.
TxBody(r, series, k, failAt) ==
  IF r.err # NoErr \/ k > Len(series) THEN r
  ELSE TxBody(WriteSerie(r, series[k], failAt), series, k + 1, failAt)

\* Number of CreateBucketIfNotExists calls the batch makes when none fails.
BucketCalls(store, series) == TxBody(TxState(store, 0, NoErr), series, 1, 0).n

\* db.Update committing what fn did even when fn returns an error.
UpdateNoRollback(store, series, failAt) ==
  LET r == TxBody(TxState(store, 0, NoErr), series, 1, failAt)
  IN [store |-> r.st, err |-> r.err]

\* db.Update(fn): commit what fn did when it returns nil, roll back otherwise.
Update(store, series, failAt) ==
  LET r == TxBody(TxState(store, 0, NoErr), series, 1, failAt)
  IN IF r.err = NoErr THEN [store |-> r.st, err |-> NoErr]
     ELSE [store |-> store, err |-> r.err]

\* ------------------------------------------------------------ write inputs
\* Batches the callers submit: a plain point, a point with a null field, a
\* batch whose second point cannot be marshalled, an empty-named serie
\* followed by a named one, two series of which the second cannot be
\* marshalled at its second field, an empty-named serie with a nil value
\* between two named ones, and a serie with two points of one timestamp and
\* sequence number.
Batches ==
  { << Serie(SName, <<FName>>, << Point(1, 1, <<IntValue(1)>>) >>) >>,
    << Serie(SName, <<FName, GName>>, << Point(1, 1, <<NullValue, IntValue(2)>>) >>) >>,
    << Serie(SName, <<FName>>, << Point(2, 1, <<IntValue(1)>>),
                                  Point(2, 2, <<NilValue>>) >>) >>,
    << Serie(EmptyName, <<FName>>, << Point(1, 1, <<IntValue(1)>>) >>),
       Serie(TName, <<FName>>, << Point(1, 1, <<NullValue>>) >>) >>,
    << Serie(SName, <<FName>>, << Point(3, 1, <<IntValue(3)>>) >>),
       Serie(TName, <<FName, GName>>, << Point(3, 1, <<IntValue(2), NilValue>>) >>) >>,
    << Serie(SName, <<FName>>, << Point(4, 1, <<IntValue(4)>>) >>),
       Serie(EmptyName, <<GName>>, << Point(4, 1, <<NilValue>>) >>),
       Serie(TName, <<GName>>, << Point(4, 1, <<IntValue(5)>>) >>) >>,
    << Serie(SName, <<FName, GName>>, << Point(1, 1, <<IntValue(6), IntValue(7)>>),
                                         Point(1, 1, <<IntValue(8), NullValue>>) >>) >> }

\* The batches of the concurrent callers: a plain point, and a batch that
\* fails at its second point after the first was put.
ConcBatches ==
  { << Serie(SName, <<FName>>, << Point(1, 1, <<IntValue(1)>>) >>) >>,
    << Serie(SName, <<FName>>, << Point(2, 1, <<IntValue(1)>>),
                                  Point(2, 2, <<NilValue>>) >>) >> }

\* The three classifiers of a parser.QuerySpec.
QuerySpecs ==
  [isListSeries : BOOLEAN, isDropSeries : BOOLEAN, isDeleteFromSeries : BOOLEAN]

\* The query of the concurrent callers: a generic series query.
ConcQuerySpecs ==
  {[isListSeries |-> FALSE, isDropSeries |-> FALSE, isDeleteFromSeries |-> FALSE]}

\* The database the concurrent callers contend for.
ConcDatabases == {"a"}

\* The caller of the sequential runs.
SeqProc == "p1"

\* -------------------------------------------------------------- the state
VARIABLES
  closed,     \* BoltShard.closed
  dbs,        \* BoltShard.dbs: database name -> handle, NoHandle when absent
  lock,       \* BoltShard.lock: the goroutine holding it, NoProc when free
  hopen,      \* per *bolt.DB handle: opened and not yet closed
  hino,       \* per open handle: the file (inode) it has open
  files,      \* baseDir: database name -> inode, NoInode when no such file
  disk,       \* inode -> the committed content of the store in that file
  pc,         \* per goroutine: where it is in the call it is running
  database,   \* per goroutine: the database argument of its call
  series,     \* per goroutine: the batch argument of Write
  querySpec,  \* per goroutine: the querySpec argument of Query
  db,         \* per goroutine: the local variable db
  ret,        \* per goroutine: the return statement its last call left by
  fault       \* the runtime aborted on unsynchronized access to the map

vars == <<closed, dbs, lock, hopen, hino, files, disk, pc, database, series,
          querySpec, db, ret, fault>>

\* A nil *bolt.DB, and the absence of a file.
NoHandle == << >>
NoInode == << >>
NoProc == "none"
NoDatabase == ""
NoQuery == [isListSeries |-> FALSE, isDropSeries |-> FALSE, isDeleteFromSeries |-> FALSE]
NoSeries == << >>
NoRet == [line |-> 0, err |-> "none"]

\* Identities of handles and of files: the name they were opened or created
\* under, and a number telling apart those of one name.
Handles == Databases \X (1..MaxHandles)
Inodes == Databases \X (1..(MaxHandles + 1))

Min(S) == CHOOSE x \in S : \A y \in S : x <= y

\* Handles that stand for a live *bolt.DB: open, or still referenced.
LiveHandles == {h \in Handles : hopen[h] \/ \E p \in Procs : db[p] = h}

\* The identity the next handle opened under name gets.
NewHandle(name) == <<name, Min({k \in 1..MaxHandles : <<name, k>> \notin LiveHandles})>>

\* bolt.Open can allocate a handle.
CanOpen == Cardinality(LiveHandles) < MaxHandles

\* Inodes in use: linked under baseDir, or held open by a handle.
InodeUsed(f, ho, hi, i) ==
  (\E n \in Databases : f[n] = i) \/ (\E h \in Handles : ho[h] /\ hi[h] = i)

\* The identity a file created under name gets.
NewInode(name) ==
  <<name, Min({g \in 1..(MaxHandles + 1) : ~InodeUsed(files, hopen, hino, <<name, g>>)})>>

\* The file system drops the content of an inode nobody links or holds open.
Reclaim(f, ho, hi) ==
  [i \in Inodes |-> IF InodeUsed(f, ho, hi, i) THEN disk[i] ELSE EmptyStore]

\* NewBoltShard over an empty base directory.
Init ==
  /\ closed = FALSE
  /\ dbs = [n \in Databases |-> NoHandle]
  /\ lock = NoProc
  /\ hopen = [h \in Handles |-> FALSE]
  /\ hino = [h \in Handles |-> NoInode]
  /\ files = [n \in Databases |-> NoInode]
  /\ disk = [i \in Inodes |-> EmptyStore]
  /\ pc = [p \in Procs |-> "idle"]
  /\ database = [p \in Procs |-> NoDatabase]
  /\ series = [p \in Procs |-> NoSeries]
  /\ querySpec = [p \in Procs |-> NoQuery]
  /\ db = [p \in Procs |-> NoHandle]
  /\ ret = [p \in Procs |-> NoRet]
  /\ fault = FALSE

\* IsClosed()
IsClosed == closed

\* A return statement: the call ends, its locals die, the deferred Unlock
\* runs when the goroutine holds the lock.
Return(p, line, err) ==
  /\ pc' = [pc EXCEPT ![p] = "idle"]
  /\ ret' = [ret EXCEPT ![p] = [line |-> line, err |-> err]]
  /\ database' = [database EXCEPT ![p] = NoDatabase]
  /\ series' = [series EXCEPT ![p] = NoSeries]
  /\ querySpec' = [querySpec EXCEPT ![p] = NoQuery]
  /\ db' = [db EXCEPT ![p] = NoHandle]
  /\ lock' = IF lock = p THEN NoProc ELSE lock

\* s.lock.Lock() at the head of Write, DropDatabase and close.
Lock(p, label, name, batch) ==
  /\ lock = NoProc
  /\ lock' = p
  /\ pc' = [pc EXCEPT ![p] = label]
  /\ database' = [database EXCEPT ![p] = name]
  /\ series' = [series EXCEPT ![p] = batch]
  /\ ret' = [ret EXCEPT ![p] = NoRet]
  /\ UNCHANGED <<closed, dbs, hopen, hino, files, disk, querySpec, db, fault>>

\* bolt.Open(baseDir + "/" + name) succeeding: a new handle on the file of
\* that name, created empty when there is none.
OpenFile(name) ==
  LET h == NewHandle(name)
      i == IF files[name] # NoInode THEN files[name] ELSE NewInode(name)
  IN /\ hopen' = [hopen EXCEPT ![h] = TRUE]
     /\ hino' = [hino EXCEPT ![h] = i]
     /\ files' = [files EXCEPT ![name] = i]
     /\ disk' = disk

\* db.Close() on handle h.
CloseHandle(h, f) ==
  /\ hopen' = [hopen EXCEPT ![h] = FALSE]
  /\ hino' = [hino EXCEPT ![h] = NoInode]
  /\ disk' = Reclaim(f, hopen', hino')

\* ------------------------------------------------------------------ Write
\* Write: the call and s.lock.Lock().
WriteLock(p, name, batch) ==
  /\ ~fault
  /\ pc[p] = "idle"
  /\ Lock(p, "w_check", name, batch)

\* WriteCheck with the closed check left out.
WriteCheckIgnoreClosed(p) ==
  /\ ~fault
  /\ pc[p] = "w_check"
  /\ db' = [db EXCEPT ![p] = dbs[database[p]]]
  /\ pc' = [pc EXCEPT ![p] = IF dbs[database[p]] # NoHandle THEN "w_tx" ELSE "w_open"]
  /\ UNCHANGED <<closed, dbs, lock, hopen, hino, files, disk, database,
                 series, querySpec, ret, fault>>

\* Write: the closed check and the cache lookup.
WriteCheck(p) ==
  /\ ~fault
  /\ pc[p] = "w_check"
  /\ IF closed
       THEN Return(p, 109, "shard closed") /\ UNCHANGED <<closed, dbs, hopen, hino, files, disk, fault>>
       ELSE /\ db' = [db EXCEPT ![p] = dbs[database[p]]]
            /\ pc' = [pc EXCEPT ![p] = IF dbs[database[p]] # NoHandle THEN "w_tx" ELSE "w_open"]
            /\ UNCHANGED <<closed, dbs, lock, hopen, hino, files, disk, database,
                           series, querySpec, ret, fault>>

\* WriteOpen unlocking right after the cache insert, before the transaction.
WriteOpenUnlockEarly(p) ==
  /\ ~fault
  /\ pc[p] = "w_open"
  /\ \/ /\ Return(p, 123, "open error")
        /\ UNCHANGED <<closed, dbs, hopen, hino, files, disk, fault>>
     \/ /\ CanOpen
        /\ OpenFile(database[p])
        /\ db' = [db EXCEPT ![p] = NewHandle(database[p])]
        /\ dbs' = [dbs EXCEPT ![database[p]] = NewHandle(database[p])]
        /\ pc' = [pc EXCEPT ![p] = "w_tx"]
        /\ lock' = NoProc
        /\ UNCHANGED <<closed, database, series, querySpec, ret, fault>>

\* Write: bolt.Open on a cache miss, then the cache insert.
WriteOpen(p) ==
  /\ ~fault
  /\ pc[p] = "w_open"
  /\ \/ /\ Return(p, 123, "open error")
        /\ UNCHANGED <<closed, dbs, hopen, hino, files, disk, fault>>
     \/ /\ CanOpen
        /\ OpenFile(database[p])
        /\ db' = [db EXCEPT ![p] = NewHandle(database[p])]
        /\ dbs' = [dbs EXCEPT ![database[p]] = NewHandle(database[p])]
        /\ pc' = [pc EXCEPT ![p] = "w_tx"]
        /\ UNCHANGED <<closed, lock, database, series, querySpec, ret, fault>>

\* Write: db.Update with the transaction function, and the return.
WriteUpdate(p) ==
  /\ ~fault
  /\ pc[p] = "w_tx"
  /\ IF ~hopen[db[p]]
       THEN Return(p, 130, "database not open") /\ UNCHANGED disk
       ELSE \E failAt \in 0..BucketCalls(disk[hino[db[p]]], series[p]) :
              LET u == Update(disk[hino[db[p]]], series[p], failAt)
              IN /\ disk' = [disk EXCEPT ![hino[db[p]]] = u.store]
                 /\ Return(p, 130, u.err)
  /\ UNCHANGED <<closed, dbs, hopen, hino, files, fault>>

\* ----------------------------------------------------------- DropDatabase
\* DropDatabase: the call and s.lock.Lock().
DropLock(p, name) ==
  /\ ~fault
  /\ pc[p] = "idle"
  /\ Lock(p, "d_lookup", name, NoSeries)

\* DropLookup removing the file of the name even on a cache miss.
DropLookupRemoveOnMiss(p) ==
  /\ ~fault
  /\ pc[p] = "d_lookup"
  /\ IF dbs[database[p]] = NoHandle
       THEN /\ Return(p, 46, NoErr)
            /\ files' = [files EXCEPT ![database[p]] = NoInode]
            /\ disk' = Reclaim(files', hopen, hino)
       ELSE /\ db' = [db EXCEPT ![p] = dbs[database[p]]]
            /\ pc' = [pc EXCEPT ![p] = "d_close"]
            /\ UNCHANGED <<lock, database, series, querySpec, ret, files, disk>>
  /\ UNCHANGED <<closed, dbs, hopen, hino, fault>>

\* DropDatabase: the cache lookup, returning nil on a miss.
DropLookup(p) ==
  /\ ~fault
  /\ pc[p] = "d_lookup"
  /\ IF dbs[database[p]] = NoHandle
       THEN Return(p, 46, NoErr)
       ELSE /\ db' = [db EXCEPT ![p] = dbs[database[p]]]
            /\ pc' = [pc EXCEPT ![p] = "d_close"]
            /\ UNCHANGED <<lock, database, series, querySpec, ret>>
  /\ UNCHANGED <<closed, dbs, hopen, hino, files, disk, fault>>

\* DropClose leaving the handle in the cache.
DropCloseNoEvict(p) ==
  /\ ~fault
  /\ pc[p] = "d_close"
  /\ dbs' = dbs
  /\ \/ /\ files[database[p]] # NoInode
        /\ files' = [files EXCEPT ![database[p]] = NoInode]
        /\ Return(p, 52, NoErr)
     \/ /\ files' = files
        /\ Return(p, 52, "remove error")
  /\ CloseHandle(db[p], files')
  /\ UNCHANGED <<closed, fault>>

\* DropClose removing the file first and returning before the eviction when
\* the removal fails.
DropCloseKeepOnFailure(p) ==
  /\ ~fault
  /\ pc[p] = "d_close"
  /\ \/ /\ files[database[p]] # NoInode
        /\ files' = [files EXCEPT ![database[p]] = NoInode]
        /\ dbs' = [dbs EXCEPT ![database[p]] = NoHandle]
        /\ CloseHandle(db[p], files')
        /\ Return(p, 52, NoErr)
     \/ /\ Return(p, 52, "remove error")
        /\ UNCHANGED <<dbs, hopen, hino, files, disk>>
  /\ UNCHANGED <<closed, fault>>

\* DropDatabase: db.Close(), delete from the cache, os.Remove of the file.
DropClose(p) ==
  /\ ~fault
  /\ pc[p] = "d_close"
  /\ dbs' = [dbs EXCEPT ![database[p]] = NoHandle]
  /\ \/ /\ files[database[p]] # NoInode
        /\ files' = [files EXCEPT ![database[p]] = NoInode]
        /\ Return(p, 52, NoErr)
     \/ /\ files' = files
        /\ Return(p, 52, "remove error")
  /\ CloseHandle(db[p], files')
  /\ UNCHANGED <<closed, fault>>

\* ------------------------------------------------------------------ close
\* close: the call and s.lock.Lock().
CloseLock(p) ==
  /\ ~fault
  /\ pc[p] = "idle"
  /\ Lock(p, "c_loop", NoDatabase, NoSeries)

\* close: one iteration of the loop over the cache.
CloseIter(p) ==
  /\ ~fault
  /\ pc[p] = "c_loop"
  /\ \E name \in Databases :
       /\ dbs[name] # NoHandle
       /\ CloseHandle(dbs[name], files)
       /\ dbs' = [dbs EXCEPT ![name] = NoHandle]
  /\ UNCHANGED <<closed, lock, files, pc, database, series, querySpec, db, ret, fault>>

\* CloseDone leaving the loop before the cache is empty.
CloseDoneEarly(p) ==
  /\ ~fault
  /\ pc[p] = "c_loop"
  /\ closed' = TRUE
  /\ Return(p, 64, NoErr)
  /\ UNCHANGED <<dbs, hopen, hino, files, disk, fault>>

\* close: the loop is over; s.closed = true and the return.
CloseDone(p) ==
  /\ ~fault
  /\ pc[p] = "c_loop"
  /\ \A name \in Databases : dbs[name] = NoHandle
  /\ closed' = TRUE
  /\ Return(p, 64, NoErr)
  /\ UNCHANGED <<dbs, hopen, hino, files, disk, fault>>

\* ------------------------------------------------------------------ Query
\* Query: the cache lookup, without the lock.
QueryLookup(p, name, q) ==
  /\ ~fault
  /\ pc[p] = "idle"
  /\ database' = [database EXCEPT ![p] = name]
  /\ querySpec' = [querySpec EXCEPT ![p] = q]
  /\ ret' = [ret EXCEPT ![p] = NoRet]
  /\ db' = [db EXCEPT ![p] = dbs[name]]
  /\ pc' = [pc EXCEPT ![p] = IF dbs[name] # NoHandle THEN "q_dispatch" ELSE "q_open"]
  /\ UNCHANGED <<closed, dbs, lock, hopen, hino, files, disk, series, fault>>

\* QueryOpen going on to the switch with a nil db when bolt.Open fails.
QueryOpenIgnoreError(p) ==
  /\ ~fault
  /\ pc[p] = "q_open"
  /\ \/ /\ pc' = [pc EXCEPT ![p] = "q_dispatch"]
        /\ UNCHANGED <<hopen, hino, files, disk, lock, database, series,
                       querySpec, ret, db>>
     \/ /\ CanOpen
        /\ OpenFile(database[p])
        /\ db' = [db EXCEPT ![p] = NewHandle(database[p])]
        /\ pc' = [pc EXCEPT ![p] = "q_insert"]
        /\ UNCHANGED <<lock, database, series, querySpec, ret>>
  /\ UNCHANGED <<closed, dbs, fault>>

\* Query: bolt.Open on a cache miss.
QueryOpen(p) ==
  /\ ~fault
  /\ pc[p] = "q_open"
  /\ \/ /\ Return(p, 83, "open error")
        /\ UNCHANGED <<hopen, hino, files, disk>>
     \/ /\ CanOpen
        /\ OpenFile(database[p])
        /\ db' = [db EXCEPT ![p] = NewHandle(database[p])]
        /\ pc' = [pc EXCEPT ![p] = "q_insert"]
        /\ UNCHANGED <<lock, database, series, querySpec, ret>>
  /\ UNCHANGED <<closed, dbs, fault>>

\* Query: the cache insert, without the lock.
QueryInsert(p) ==
  /\ ~fault
  /\ pc[p] = "q_insert"
  /\ dbs' = [dbs EXCEPT ![database[p]] = db[p]]
  /\ pc' = [pc EXCEPT ![p] = "q_dispatch"]
  /\ UNCHANGED <<closed, lock, hopen, hino, files, disk, database, series,
                 querySpec, db, ret, fault>>

\* The four handlers, by the name of the method.
Handlers ==
  {"executeListSeriesQuery", "executeDropSeriesQuery",
   "executeDeleteFromSeriesQuery", "executeSeriesQuery"}

\* The switch testing IsDropSeriesQuery before IsListSeriesQuery.
HandlerDropFirst(q) ==
  IF q.isDropSeries THEN "executeDropSeriesQuery"
  ELSE IF q.isListSeries THEN "executeListSeriesQuery"
  ELSE IF q.isDeleteFromSeries THEN "executeDeleteFromSeriesQuery"
  ELSE "executeSeriesQuery"

\* The switch over the query's classifiers: the handler of the first case
\* that matches.
Handler(q) ==
  IF q.isListSeries THEN "executeListSeriesQuery"
  ELSE IF q.isDropSeries THEN "executeDropSeriesQuery"
  ELSE IF q.isDeleteFromSeries THEN "executeDeleteFromSeriesQuery"
  ELSE "executeSeriesQuery"

\* The line of the return statement that calls the handler.
HandlerLine(h) ==
  IF h = "executeListSeriesQuery" THEN 92
  ELSE IF h = "executeDropSeriesQuery" THEN 94
  ELSE IF h = "executeDeleteFromSeriesQuery" THEN 96
  ELSE 98

\* Query: the switch calls one handler with db.
QueryDispatch(p) ==
  /\ ~fault
  /\ pc[p] = "q_dispatch"
  /\ pc' = [pc EXCEPT ![p] = Handler(querySpec[p])]
  /\ UNCHANGED <<closed, dbs, lock, hopen, hino, files, disk, database, series,
                 querySpec, db, ret, fault>>

\* Query: the handler returns and Query returns its result.
QueryReturn(p) ==
  /\ ~fault
  /\ pc[p] \in Handlers
  /\ \E err \in {NoErr, "handler error"} : Return(p, HandlerLine(pc[p]), err)
  /\ UNCHANGED <<closed, dbs, hopen, hino, files, disk, fault>>

\* --------------------------------------------------- unsynchronized access
\* Goroutines about to write the map s.dbs, and about to read it.
MapWriters == {p \in Procs : pc[p] \in {"w_open", "d_close", "c_loop", "q_insert"}}
MapReaders == {p \in Procs : pc[p] \in {"w_check", "d_lookup"}}

\* Query reads or writes the map while another goroutine is at an access
\* that conflicts with it: the runtime may abort the process.
MapRace(p) ==
  /\ ~fault
  /\ \/ pc[p] = "idle" /\ MapWriters \ {p} # {}
     \/ pc[p] = "q_insert" /\ (MapWriters \cup MapReaders) \ {p} # {}
  /\ fault' = TRUE
  /\ UNCHANGED <<closed, dbs, lock, hopen, hino, files, disk, pc, database,
                 series, querySpec, db, ret>>

\* ------------------------------------------------------------------ system
\* One step of goroutine p, its calls drawing their arguments from the
\* database names D, the batches B and the query specs Q.
Step(p, D, B, Q) ==
  \/ \E name \in D, batch \in B : WriteLock(p, name, batch)
  \/ WriteCheck(p)
  \/ WriteOpen(p)
  \/ WriteUpdate(p)
  \/ \E name \in D : DropLock(p, name)
  \/ DropLookup(p)
  \/ DropClose(p)
  \/ CloseLock(p)
  \/ CloseIter(p)
  \/ CloseDone(p)
  \/ \E name \in D, q \in Q : QueryLookup(p, name, q)
  \/ QueryOpen(p)
  \/ QueryInsert(p)
  \/ QueryDispatch(p)
  \/ QueryReturn(p)

\* Concurrent callers: every interleaving of the goroutines' steps.
Next ==
  \E p \in Procs :
    \/ Step(p, ConcDatabases, ConcBatches, ConcQuerySpecs)
    \/ MapRace(p)

Spec == Init /\ [][Next]_vars

\* One caller issuing calls one after the other, over all the inputs.
NextSeq == Step(SeqProc, Databases, Batches, QuerySpecs)

SpecSeq == Init /\ [][NextSeq]_vars

\* ------------------------------------------------- writes of single values
\* Number of data keys a store holds before the caller stops adding to it.
MaxKeys == 2

\* The points the caller of the key runs writes: two series names of which
\* one is a prefix of the other, timestamps below and above zero, within
\* and beyond one byte, sequence numbers within and beyond one byte, and two
\* field names of which one starts with a series name.
KeyTuples ==
  [series : {SName, SName \o SName}, timestamp : {-256, -1, 1, 256},
   sequenceNumber : {2, 256}, field : {FName, SName \o FName}]

\* The batch that writes one value for the tuple.
KeyBatch(t) ==
  << Serie(t.series, <<t.field>>,
           << Point(t.timestamp, t.sequenceNumber, <<IntValue(1)>>) >>) >>

\* Write of one tuple to database "a" while its store holds few keys.
KeyWriteLock(p, t) ==
  /\ pc[p] = "idle"
  /\ \A i \in Inodes : Cardinality(DOMAIN Bucket(disk[i], "data")) < MaxKeys
  /\ WriteLock(p, "a", KeyBatch(t))

\* One caller writing single values to one database and dropping it.
NextKeys ==
  \/ \E t \in KeyTuples : KeyWriteLock(SeqProc, t)
  \/ WriteCheck(SeqProc)
  \/ WriteOpen(SeqProc)
  \/ WriteUpdate(SeqProc)
  \/ DropLock(SeqProc, "a")
  \/ DropLookup(SeqProc)
  \/ DropClose(SeqProc)

SpecKeys == Init /\ [][NextKeys]_vars

\* ================================================================= claims
\* The handle cache is empty.
CacheEmpty == \A name \in Databases : dbs[name] = NoHandle

\* Goroutine p leaves Write's transaction in this step.
WriteReturns(p) == pc[p] = "w_tx" /\ pc'[p] = "idle"

\* The series name and the field name a data bucket key refers to.
FirstNull(k) == Min({i \in 1..Len(k) : k[i] = 0})
SeriesOfDataKey(k) == SubSeq(k, 1, FirstNull(k) - 1)
FieldOfDataKey(k) == SubSeq(k, FirstNull(k) + 2 * KeyIntBytes + 1, Len(k))

\* C1: once close() has run the shard stays shut: no step opens a handle,
\* the handle cache stays empty and no Write returns success.
C1_StaysShut ==
  [][closed =>
       /\ \A name \in Databases : dbs'[name] = NoHandle
       /\ \A h \in Handles : hopen'[h] => hopen[h]
       /\ \A p \in Procs : ~(WriteReturns(p) /\ ret'[p].err = NoErr)]_vars

\* C2: on a closed shard no Write gets past its closed check, and the Write
\* returns the shard-closed error leaving the cache, the handles, the files
\* and the stores as they were.
C2_ClosedWriteFails ==
  [][closed =>
       \A p \in Procs :
         /\ pc'[p] \notin {"w_open", "w_tx"}
         /\ (pc[p] = "w_check" /\ pc'[p] # "w_check") =>
              /\ ret'[p] = [line |-> 109, err |-> "shard closed"]
              /\ UNCHANGED <<closed, dbs, hopen, hino, files, disk>>]_vars

\* A Write was refused on a closed shard.
C2_Witness ==
  closed /\ \E p \in Procs : ret[p] = [line |-> 109, err |-> "shard closed"]

\* Every mutation of the batch is in the store: each named serie in the
\* series bucket, each non-null value under its fields key and its data key.
BatchApplied(store, batch) ==
  \A k \in 1..Len(batch) :
    batch[k].name # EmptyName =>
      /\ batch[k].name \in DOMAIN Bucket(store, "series")
      /\ \A j \in 1..Len(batch[k].points), i \in 1..Len(batch[k].fields) :
           ~GetIsNull(batch[k].points[j].values[i]) =>
             /\ FieldBucketKey(batch[k].name, batch[k].fields[i])
                  \in DOMAIN Bucket(store, "fields")
             /\ DataBucketKey(KeyPrefix(batch[k].name, batch[k].points[j]),
                              batch[k].fields[i])
                  \in DOMAIN Bucket(store, "data")

C4_IndexComplete ==
  \A i \in Inodes :
    \A k \in DOMAIN Bucket(disk[i], "data") :
      /\ SeriesOfDataKey(k) \in DOMAIN Bucket(disk[i], "series")
      /\ FieldBucketKey(SeriesOfDataKey(k), FieldOfDataKey(k))
           \in DOMAIN Bucket(disk[i], "fields")

\* A store holds data and the last Write failed.
C4_Witness ==
  /\ \E i \in Inodes : DOMAIN Bucket(disk[i], "data") # {}
  /\ \E p \in Procs : ret[p].line = 130 /\ ret[p].err # NoErr

\* Goroutine p is between a lookup in the cache and its insert or evict.
InCacheSection(p) == pc[p] \in {"w_open", "d_close", "c_loop", "q_open", "q_insert"}

\* C5: no two goroutines are at once between their cache lookup and their
\* cache insert or evict, and a Query between its lookup and its insert
\* holds the shard lock.
C5_CacheSerialized ==
  /\ \A p, q \in Procs : p # q => ~(InCacheSection(p) /\ InCacheSection(q))
  /\ \A p \in Procs : pc[p] \in {"q_open", "q_insert"} => lock = p

\* Goroutine q, not in a call, can take the shard lock for a Write to a
\* database other than name, for a DropDatabase and for a close.
CanTakeLock(q, name) ==
  /\ ENABLED CloseLock(q)
  /\ \A other \in Databases : ENABLED DropLock(q, other)
  /\ \A other \in Databases \ {name}, batch \in ConcBatches :
       ENABLED WriteLock(q, other, batch)

\* C6: a Write inside its transaction has released the shard lock, so that
\* another goroutine can take it for a Write to another database, for a
\* DropDatabase and for a close.
C6_LockReleasedForTx ==
  \A p \in Procs :
    pc[p] = "w_tx" =>
      /\ lock # p
      /\ \A q \in Procs \ {p} : pc[q] = "idle" => CanTakeLock(q, database[p])

\* C6 as amended: a Write holds the shard lock from its first statement to
\* its return, the transaction included, and meanwhile no other goroutine
\* can take the lock for a Write to any database, a DropDatabase or a close.
C6_LockHeldThroughTx ==
  \A p \in Procs :
    pc[p] \in {"w_check", "w_open", "w_tx"} =>
      /\ lock = p
      /\ \A q \in Procs \ {p} :
           /\ ~ENABLED CloseLock(q)
           /\ \A other \in Databases : ~ENABLED DropLock(q, other)
           /\ \A other \in Databases, batch \in ConcBatches :
                ~ENABLED WriteLock(q, other, batch)

\* A Write is inside its transaction while another goroutine is not in a call.
C6_Witness ==
  \E p, q \in Procs : p # q /\ pc[p] = "w_tx" /\ pc[q] = "idle"

\* Database name has neither a cached handle nor a backing file.
Dropped(name) == dbs[name] = NoHandle /\ files[name] = NoInode

\* C7: a DropDatabase that returns nil has closed the cached handle, evicted
\* it and removed the file; the name then stays without handle and file
\* until a Write or Query for it opens a store, and that store is a new one
\* with no bucket content, which is the one the call then works on.
C7_DropThenFresh ==
  [][\A p \in Procs :
       /\ (pc[p] = "d_close" /\ pc'[p] = "idle" /\ ret'[p].err = NoErr) =>
            /\ ~hopen'[db[p]]
            /\ dbs'[database[p]] = NoHandle
            /\ files'[database[p]] = NoInode
       /\ \A name \in Databases :
            Dropped(name) =>
              \/ dbs'[name] = NoHandle /\ files'[name] = NoInode
              \/ /\ files'[name] # NoInode
                 /\ disk'[files'[name]] = EmptyStore
                 /\ \E q \in Procs :
                      /\ pc[q] \in {"w_open", "q_open"}
                      /\ database[q] = name
                      /\ db[q] = NoHandle
                      /\ hopen'[db'[q]]
                      /\ hino'[db'[q]] = files'[name]]_vars

\* A DropDatabase of a cached database returned nil and a database has
\* neither handle nor file.
C7_Witness ==
  /\ \E p \in Procs : ret[p] = [line |-> 52, err |-> NoErr]
  /\ \E name \in Databases : Dropped(name)

\* C8: DropDatabase of a cached database always closes and evicts the handle;
\* it returns an error exactly when the removal failed, and then the file is
\* still there with the content it had.
C8_DropRemoveFails ==
  [][\A p \in Procs :
       (pc[p] = "d_close" /\ pc'[p] = "idle") =>
         /\ ~hopen'[db[p]]
         /\ dbs'[database[p]] = NoHandle
         /\ (ret'[p].err # NoErr) <=> (files'[database[p]] # NoInode)
         /\ ret'[p].err # NoErr =>
              /\ ret'[p] = [line |-> 52, err |-> "remove error"]
              /\ files'[database[p]] = files[database[p]]
              /\ disk'[files[database[p]]] = disk[files[database[p]]]]_vars

\* A DropDatabase failed to remove a file that holds data, and the database
\* has no cache entry.
C8_Witness ==
  /\ \E p \in Procs : ret[p] = [line |-> 52, err |-> "remove error"]
  /\ \E name \in Databases :
       /\ dbs[name] = NoHandle
       /\ files[name] # NoInode
       /\ disk[files[name]] # EmptyStore

\* C9: DropDatabase of a database with no cached handle returns nil, and from
\* its call to its return the cache, the closed flag, the handles, the files
\* and the stores do not change.
C9_DropMissNoop ==
  [][\A p \in Procs :
       /\ (pc[p] = "idle" /\ pc'[p] = "d_lookup") =>
            UNCHANGED <<closed, dbs, hopen, hino, files, disk>>
       /\ (pc[p] = "d_lookup" /\ dbs[database[p]] = NoHandle /\ pc'[p] # "d_lookup") =>
            /\ pc'[p] = "idle"
            /\ ret'[p] = [line |-> 46, err |-> NoErr]
            /\ UNCHANGED <<closed, dbs, hopen, hino, files, disk>>]_vars

\* A DropDatabase returned at the cache miss while a file without cached
\* handle exists.
C9_Witness ==
  /\ \E p \in Procs : ret[p] = [line |-> 46, err |-> NoErr]
  /\ \E name \in Databases : dbs[name] = NoHandle /\ files[name] # NoInode

\* C10: the closed flag never goes back to false and only the return of
\* close() sets it; every handle close() evicts is closed; and every close(),
\* the first and the later ones, returns with the cache empty and the flag set.
C10_CloseOneWay ==
  [][/\ closed => closed'
     /\ (~closed /\ closed') => \E p \in Procs : pc[p] = "c_loop" /\ pc'[p] = "idle"
     /\ \A p \in Procs :
          /\ pc[p] = "c_loop" =>
               \A name \in Databases :
                 (dbs[name] # NoHandle /\ dbs'[name] = NoHandle) => ~hopen'[dbs[name]]
          /\ (pc[p] = "c_loop" /\ pc'[p] = "idle") =>
               /\ closed'
               /\ \A name \in Databases : dbs'[name] = NoHandle
               /\ ret'[p] = [line |-> 64, err |-> NoErr]]_vars

\* A second close() is running on a closed shard whose cache holds a handle.
C10_Witness ==
  closed /\ ~CacheEmpty /\ \E p \in Procs : pc[p] = "c_loop"

\* The store goroutine p's transaction runs on.
TxStore(p) == disk[hino[db[p]]]

\* C11: the store a committed Write leaves is the one a second Write of the
\* same batch leaves: that transaction returns nil and changes no bucket;
\* and a Write of a batch the store already holds in full changes nothing.
C11_WriteTwice ==
  [][\A p \in Procs :
       (WriteReturns(p) /\ ret'[p].err = NoErr) =>
         /\ Update(disk'[hino[db[p]]], series[p], 0)
              = [store |-> disk'[hino[db[p]]], err |-> NoErr]
         /\ Update(TxStore(p), series[p], 0).store = TxStore(p) => disk' = disk]_vars

\* A Write of a batch with data is about to run its transaction on a store
\* that already holds the whole batch.
C11_Witness ==
  \E p \in Procs :
    /\ pc[p] = "w_tx"
    /\ hopen[db[p]]
    /\ DOMAIN Bucket(TxStore(p), "data") # {}
    /\ BatchApplied(TxStore(p), series[p])
    /\ Update(TxStore(p), series[p], 0) = [store |-> TxStore(p), err |-> NoErr]

\* The field positions of a batch: serie k, point j, field i.
Positions(batch) ==
  UNION {{<<k, j, i>> : j \in 1..Len(batch[k].points), i \in 1..Len(batch[k].fields)} :
           k \in 1..Len(batch)}

PosSerie(batch, x) == batch[x[1]]
PosPoint(batch, x) == batch[x[1]].points[x[2]]
PosField(batch, x) == batch[x[1]].fields[x[3]]
PosValue(batch, x) == batch[x[1]].points[x[2]].values[x[3]]

\* The positions of a batch that hold a value to store: the serie is named
\* and the value is not null.
Stored(batch) ==
  {x \in Positions(batch) :
     PosSerie(batch, x).name # EmptyName /\ ~GetIsNull(PosValue(batch, x))}

\* The keys under which bucket b2 differs from bucket b1.
Changed(b1, b2) ==
  {k \in DOMAIN b1 \cup DOMAIN b2 :
     k \notin DOMAIN b1 \/ k \notin DOMAIN b2 \/ b1[k] # b2[k]}

\* C12: a Write adds or changes a fields entry and a data entry only for a
\* position whose value is not null, so a null position, and a point that is
\* null throughout, leave both buckets alone; and a Write whose values are
\* null or proper values does not fail in marshalling.
C12_NullSkip ==
  [][\A p \in Procs :
       WriteReturns(p) =>
         /\ \A k \in Changed(Bucket(TxStore(p), "fields"),
                             Bucket(disk'[hino[db[p]]], "fields")) :
              \E x \in Stored(series[p]) :
                k = FieldBucketKey(PosSerie(series[p], x).name, PosField(series[p], x))
         /\ \A k \in Changed(Bucket(TxStore(p), "data"),
                             Bucket(disk'[hino[db[p]]], "data")) :
              \E x \in Stored(series[p]) :
                k = DataBucketKey(KeyPrefix(PosSerie(series[p], x).name,
                                            PosPoint(series[p], x)),
                                  PosField(series[p], x))
         /\ ret'[p].err = ErrMarshal =>
              \E x \in Positions(series[p]) : MarshalFails(PosValue(series[p], x))]_vars

\* A Write committed; a store holds serie s with field g and without field f,
\* which was null in the point written, and a store holds serie t, whose only
\* point was null throughout, with no fields entry and no data entry.
C12_Witness ==
  /\ \E p \in Procs : ret[p] = [line |-> 130, err |-> NoErr]
  /\ \E i \in Inodes :
       /\ FieldBucketKey(SName, GName) \in DOMAIN Bucket(disk[i], "fields")
       /\ FieldBucketKey(SName, FName) \notin DOMAIN Bucket(disk[i], "fields")
  /\ \E i \in Inodes :
       /\ TName \in DOMAIN Bucket(disk[i], "series")
       /\ \A k \in DOMAIN Bucket(disk[i], "data") : SeriesOfDataKey(k) # TName
       /\ FieldBucketKey(TName, FName) \notin DOMAIN Bucket(disk[i], "fields")

\* The serie has a name.
IsNamed(serie) == serie.name # EmptyName

\* The batch without its empty-named entries.
Named(batch) == SelectSeq(batch, IsNamed)

\* C13: a Write returns what the Write of its batch without the empty-named
\* entries returns and leaves the stores that one leaves; and no store holds
\* an entry under an empty series name.
C13_EmptyNameSkipped ==
  [][/\ \A p \in Procs :
          (WriteReturns(p) /\ hopen[db[p]]) =>
            \E failAt \in 0..BucketCalls(TxStore(p), Named(series[p])) :
              /\ disk' = [disk EXCEPT ![hino[db[p]]] =
                            Update(TxStore(p), Named(series[p]), failAt).store]
              /\ ret'[p].err = Update(TxStore(p), Named(series[p]), failAt).err
     /\ \A i \in Inodes :
          /\ EmptyName \notin DOMAIN Bucket(disk'[i], "series")
          /\ \A k \in DOMAIN Bucket(disk'[i], "fields") \cup DOMAIN Bucket(disk'[i], "data") :
               k[1] # 0]_vars

\* A Write committed a batch with an empty-named entry between two named
\* ones: the store holds the series before it and the data of the one after.
C13_Witness ==
  /\ \E p \in Procs : ret[p] = [line |-> 130, err |-> NoErr]
  /\ \E i \in Inodes :
       /\ SName \in DOMAIN Bucket(disk[i], "series")
       /\ FieldBucketKey(TName, GName) \in DOMAIN Bucket(disk[i], "fields")
       /\ FieldBucketKey(SName, GName) \notin DOMAIN Bucket(disk[i], "fields")

\* C14: Query enters a handler only from its switch, and the handler it
\* enters is the first that matches in the order list-series, drop-series,
\* delete-from-series, else the series query; the call runs no second
\* handler, and it returns by the return statement of that handler with the
\* handler's result, nil or its error.
C14_Dispatch ==
  [][\A p \in Procs :
       /\ (pc[p] \notin Handlers /\ pc'[p] \in Handlers) => pc[p] = "q_dispatch"
       /\ (pc[p] = "q_dispatch" /\ pc'[p] # "q_dispatch") =>
            /\ querySpec[p].isListSeries => pc'[p] = "executeListSeriesQuery"
            /\ (~querySpec[p].isListSeries /\ querySpec[p].isDropSeries) =>
                 pc'[p] = "executeDropSeriesQuery"
            /\ (~querySpec[p].isListSeries /\ ~querySpec[p].isDropSeries
                  /\ querySpec[p].isDeleteFromSeries) =>
                 pc'[p] = "executeDeleteFromSeriesQuery"
            /\ (~querySpec[p].isListSeries /\ ~querySpec[p].isDropSeries
                  /\ ~querySpec[p].isDeleteFromSeries) =>
                 pc'[p] = "executeSeriesQuery"
       /\ (pc[p] \in Handlers /\ pc'[p] # pc[p]) =>
            /\ pc'[p] = "idle"
            /\ ret'[p].err \in {NoErr, "handler error"}
            /\ pc[p] = "executeListSeriesQuery" => ret'[p].line = 92
            /\ pc[p] = "executeDropSeriesQuery" => ret'[p].line = 94
            /\ pc[p] = "executeDeleteFromSeriesQuery" => ret'[p].line = 96
            /\ pc[p] = "executeSeriesQuery" => ret'[p].line = 98]_vars

\* The list-series handler runs for a query that is also a drop-series and a
\* delete-from-series query.
C14_Witness ==
  \E p \in Procs :
    /\ pc[p] = "executeListSeriesQuery"
    /\ querySpec[p].isDropSeries
    /\ querySpec[p].isDeleteFromSeries

\* C15: a Write or Query leaves its bolt.Open either with an open handle, on
\* to the cache insert, or by returning the open error at once, and then it
\* has changed neither the cache nor any handle, has started no transaction
\* and entered no handler; and a Write past its closed check, or a Query,
\* that misses the cache goes to bolt.Open, also after an earlier failure.
C15_OpenError ==
  [][\A p \in Procs :
       /\ (pc[p] = "w_open" /\ pc'[p] # "w_open") =>
            \/ /\ pc'[p] = "w_tx"
               /\ ~hopen[db'[p]] /\ hopen'[db'[p]]
               /\ dbs'[database[p]] = db'[p]
            \/ /\ pc'[p] = "idle"
               /\ ret'[p] = [line |-> 123, err |-> "open error"]
               /\ UNCHANGED <<closed, dbs, hopen, hino, disk>>
       /\ (pc[p] = "q_open" /\ pc'[p] # "q_open") =>
            \/ /\ pc'[p] = "q_insert"
               /\ ~hopen[db'[p]] /\ hopen'[db'[p]]
            \/ /\ pc'[p] = "idle"
               /\ ret'[p] = [line |-> 83, err |-> "open error"]
               /\ UNCHANGED <<closed, dbs, hopen, hino, disk>>
       /\ (pc[p] = "w_check" /\ pc'[p] # "w_check" /\ ~closed
             /\ dbs[database[p]] = NoHandle) => pc'[p] = "w_open"
       /\ (pc[p] = "idle" /\ pc'[p] \in {"q_open", "q_dispatch"}) =>
            (pc'[p] = "q_open" <=> dbs[database'[p]] = NoHandle)]_vars

\* A Write on an open shard returned the open error, and the file of some
\* database exists without a cached handle.
C15_Witness ==
  /\ ~closed
  /\ \E p \in Procs : ret[p] = [line |-> 123, err |-> "open error"]
  /\ \E name \in Databases : dbs[name] = NoHandle /\ files[name] # NoInode

\* The fields bucket key and the data bucket key of position x of a batch.
PosFieldKey(batch, x) ==
  FieldBucketKey(PosSerie(batch, x).name, PosField(batch, x))
PosDataKey(batch, x) ==
  DataBucketKey(KeyPrefix(PosSerie(batch, x).name, PosPoint(batch, x)),
                PosField(batch, x))

\* Position x comes before position y in the order the batch is written.
PosBefore(x, y) ==
  \/ x[1] < y[1]
  \/ x[1] = y[1] /\ x[2] < y[2]
  \/ x[1] = y[1] /\ x[2] = y[2] /\ x[3] < y[3]

\* The last position of the batch that stores a value under data key k.
LastStored(batch, k) ==
  CHOOSE x \in Stored(batch) :
    /\ PosDataKey(batch, x) = k
    /\ \A y \in Stored(batch) : PosDataKey(batch, y) = k => (y = x \/ PosBefore(y, x))

\* The post-state of a committed Write of the batch on the store: the series
\* bucket with every name of the batch, the fields bucket with every
\* (series, field) that has a non-null value, the data bucket with the
\* encoding of each non-null value under its key, the last one on equal keys.
PostState(store, batch) ==
  LET names == {batch[k].name : k \in {n \in 1..Len(batch) : IsNamed(batch[n])}}
      fkeys == {PosFieldKey(batch, x) : x \in Stored(batch)}
      dkeys == {PosDataKey(batch, x) : x \in Stored(batch)}
  IN [series |-> [k \in DOMAIN Bucket(store, "series") \cup names |-> Nil],
      fields |-> [k \in DOMAIN Bucket(store, "fields") \cup fkeys |-> Nil],
      data |-> [k \in DOMAIN Bucket(store, "data") \cup dkeys |->
                  IF k \in dkeys THEN Marshal(PosValue(batch, LastStored(batch, k)))
                  ELSE store["data"][k]]]

\* C17: a Write that commits leaves in the store of its database the series,
\* fields and data buckets of PostState, each data key holding the encoding
\* of the value of its own position, and leaves every other store as it was.
C17_PostState ==
  [][\A p \in Procs :
       (WriteReturns(p) /\ ret'[p].err = NoErr) =>
         /\ Bucket(disk'[hino[db[p]]], "series") = PostState(TxStore(p), series[p]).series
         /\ Bucket(disk'[hino[db[p]]], "fields") = PostState(TxStore(p), series[p]).fields
         /\ Bucket(disk'[hino[db[p]]], "data") = PostState(TxStore(p), series[p]).data
         /\ \A i \in Inodes \ {hino[db[p]]} : disk'[i] = disk[i]]_vars

\* C19: the handle a Write runs its transaction on, and the handle a Query
\* dispatches and runs its handler on, is open for as long as the operation
\* holds it.
C19_HandleStaysOpen ==
  \A p \in Procs :
    pc[p] \in {"w_tx", "q_dispatch"} \cup Handlers => hopen[db[p]]

\* C20: every cached handle is open; every open handle is the cached one of
\* its database, or the one its opener is about to insert; no two open
\* handles are on one file; and no goroutine is at bolt.Open for a database
\* that has a cached handle.
C20_CacheExact ==
  /\ \A name \in Databases : dbs[name] # NoHandle => hopen[dbs[name]]
  /\ \A h \in Handles :
       hopen[h] => \/ dbs[h[1]] = h
                   \/ \E p \in Procs : pc[p] = "q_insert" /\ db[p] = h
  /\ \A h1, h2 \in Handles : (hopen[h1] /\ hopen[h2] /\ hino[h1] = hino[h2]) => h1 = h2
  /\ \A p \in Procs : pc[p] \in {"w_open", "q_open"} => dbs[database[p]] = NoHandle

\* bytes.Compare(a, b) < 0: the order of the keys in a bucket.
BytesLess(a, b) ==
  \/ Len(a) < Len(b) /\ \A j \in 1..Len(a) : a[j] = b[j]
  \/ \E i \in 1..Len(a) :
       /\ i <= Len(b)
       /\ a[i] < b[i]
       /\ \A j \in 1..(i - 1) : a[j] = b[j]

\* The data bucket key and the fields bucket key of a tuple.
TupleKey(t) ==
  DataBucketKey(KeyPrefix(t.series, Point(t.timestamp, t.sequenceNumber, << >>)),
                t.field)
TupleFieldKey(t) == FieldBucketKey(t.series, t.field)

\* The tuples whose data key the store holds.
TuplesIn(store) ==
  IF DOMAIN Bucket(store, "data") = {} THEN {}
  ELSE {t \in KeyTuples : TupleKey(t) \in DOMAIN Bucket(store, "data")}

\* Tuple t1 is before t2 by timestamp, then by sequence number.
TupleBefore(t1, t2) ==
  \/ t1.timestamp < t2.timestamp
  \/ t1.timestamp = t2.timestamp /\ t1.sequenceNumber < t2.sequenceNumber

\* C16: of two data keys of one series in a store, the one with the lower
\* timestamp, or with the same timestamp and the lower sequence number, is
\* the lower in byte order, whatever the two field names.
C16_KeyOrder ==
  \A i \in Inodes :
    LET held == TuplesIn(disk[i])
    IN \A t1, t2 \in held :
         (t1.series = t2.series /\ TupleBefore(t1, t2)) =>
           BytesLess(TupleKey(t1), TupleKey(t2))

\* A store holds two keys of one series of which the first has the negative
\* timestamp, the higher sequence number and the higher field name, and two
\* keys of one timestamp with different sequence numbers and field names.
C16_Witness ==
  \E i \in Inodes :
    LET held == TuplesIn(disk[i])
    IN \E t1, t2 \in held :
      /\ t1.series = t2.series
      /\ \/ /\ t1.timestamp < 0 /\ t2.timestamp > 0
            /\ t1.sequenceNumber > t2.sequenceNumber
            /\ BytesLess(t2.field, t1.field)
         \/ /\ t1.timestamp = t2.timestamp
            /\ t1.sequenceNumber < t2.sequenceNumber
            /\ BytesLess(t2.field, t1.field)

\* The (series, field) pair and the (series, timestamp, sequence number,
\* field) tuple of position x of a batch.
PosPair(batch, x) == <<PosSerie(batch, x).name, PosField(batch, x)>>
PosTuple(batch, x) ==
  <<PosSerie(batch, x).name, PosPoint(batch, x).timestamp,
    PosPoint(batch, x).sequenceNumber, PosField(batch, x)>>

\* C18: positions of a batch with different (series, field) pairs have
\* different fields keys and positions with different tuples have different
\* data keys; so after a committed Write the entry under the data key of a
\* position holds the encoding of a value the batch has for that very tuple,
\* not one of another point or field, and the entries under all other keys
\* are as they were.
C18_NoCollision ==
  [][\A p \in Procs :
       (WriteReturns(p) /\ ret'[p].err = NoErr) =>
         /\ \A x, y \in Stored(series[p]) :
              /\ PosPair(series[p], x) # PosPair(series[p], y) =>
                   PosFieldKey(series[p], x) # PosFieldKey(series[p], y)
              /\ PosTuple(series[p], x) # PosTuple(series[p], y) =>
                   PosDataKey(series[p], x) # PosDataKey(series[p], y)
         /\ \A x \in Stored(series[p]) :
              \E y \in Stored(series[p]) :
                /\ PosTuple(series[p], y) = PosTuple(series[p], x)
                /\ Bucket(disk'[hino[db[p]]], "data")[PosDataKey(series[p], x)]
                     = Marshal(PosValue(series[p], y))
         /\ \A k \in DOMAIN Bucket(TxStore(p), "data") :
              (\A x \in Stored(series[p]) : PosDataKey(series[p], x) # k) =>
                Bucket(disk'[hino[db[p]]], "data")[k] = Bucket(TxStore(p), "data")[k]]_vars

====
